---- MODULE Spec2Model ----
(***************************************************************************)
(* Model of hello_ar::HelloArApplication (hello_ar_application.cc).        *)
(*                                                                         *)
(* The application is a sequence of calls into the AR SDK.  A handler is   *)
(* two steps: its opening calls, which ask the SDK nothing, and the rest   *)
(* of its body, computed by an operator from the application state and    *)
(* the SDK's answers.  calls is the sequence of calls the handler has made *)
(* so far.  The SDK is opaque: each of its answers is an input chosen      *)
(* with \E.  The handlers are called one at a time.                        *)
(***************************************************************************)
EXTENDS Integers, Sequences, FiniteSets

\* ------------------------------------------------------------------ bounds
\* Largest number of anchors held in tracked_obj_set_.
MaxAnchors == 2
\* Number of distinct plane references the SDK hands out.
MaxPlanes == 2
\* Largest number of hit results one hit test returns.
MaxHits == 2
\* Largest value std::rand() returns.
MaxRand == 17

\* --------------------------------------------------------------- constants
kPlaneColorRgbaSize == 16

\* kPlaneColorRgba[std::rand() % kPlaneColorRgbaSize], 0-based index idx, after
\* the conversion of the uint32_t entry to const int32_t colorRgba.
kPlaneColorRgba(idx) ==
    <<         -1,  \* 0xFFFFFFFF
       -196921601,  \* 0xF44336FF
       -383884289,  \* 0xE91E63FF
      -1675120385,  \* 0x9C27B0FF
       1731901439,  \* 0x673AB7FF
       1062319615,  \* 0x3F51B5FF
        563540991,  \* 0x2196F3FF
         61469951,  \* 0x03A9F4FF
         12375295,  \* 0x00BCD4FF
          9865471,  \* 0x009688FF
       1286557951,  \* 0x4CAF50FF
      -1950135553,  \* 0x8BC34AFF
       -841205249,  \* 0xCDDC39FF
         -1360897,  \* 0xFFEB3BFF
         -4126721,  \* 0xFFC107FF
         -6815489   \* 0xFF9800FF
    >>[idx + 1]

\* (x >> n) & 0xff on an int32_t: arithmetic shift, then the low byte.
ShiftByte(x, n) == (x \div (2 ^ n)) % 256

\* GetRandomPlaneColor with std::rand() = r.  The colour is kept as its three
\* bytes; the division by 255.0f is one-to-one on them.
GetRandomPlaneColor(r) ==
    LET colorRgba == kPlaneColorRgba(r % kPlaneColorRgbaSize)
    IN  << ShiftByte(colorRgba, 24), ShiftByte(colorRgba, 16), ShiftByte(colorRgba, 8) >>

\* float light_intensity = 0.8f, in hundredths.
DefaultLightIntensity == 80

\* ----------------------------------------------------------------- handles
\* An SDK object the application holds a pointer to.
Handle(kind, id) == [kind |-> kind, id |-> id]
NullHandle == Handle("null", 0)
Session == Handle("session", 1)
Frame == Handle("frame", 1)
Config == Handle("config", 1)

\* Kinds of object the application keeps from one handler to the next: the
\* members ar_session_ and ar_frame_ and the anchors of tracked_obj_set_.
LongLived == { "session", "frame", "anchor" }

\* -------------------------------------------------------------- SDK answers
AR_SUCCESS == "AR_SUCCESS"
ArStatuses == { AR_SUCCESS, "AR_ERROR_FATAL" }
AR_TRACKING_STATE_TRACKING == "AR_TRACKING_STATE_TRACKING"
AR_TRACKING_STATE_STOPPED == "AR_TRACKING_STATE_STOPPED"
TrackingStates == { AR_TRACKING_STATE_TRACKING, "AR_TRACKING_STATE_PAUSED", AR_TRACKING_STATE_STOPPED }
AR_LIGHT_ESTIMATE_STATE_VALID == "AR_LIGHT_ESTIMATE_STATE_VALID"
\* What ArFrame_getLightEstimate yields: not valid, or a pixel intensity in hundredths.
LightAnswers == { [state |-> "AR_LIGHT_ESTIMATE_STATE_NOT_VALID", intensity |-> 0],
                  [state |-> AR_LIGHT_ESTIMATE_STATE_VALID, intensity |-> 100] }
AR_TRACKABLE_PLANE == "AR_TRACKABLE_PLANE"
PlaneRefs == 1..MaxPlanes
\* The values std::rand() is taken to return.
RandValues == { 0, MaxRand }

\* ------------------------------------------------------------------- calls
\* One call made by a handler.  eff says what the call does to obj: "create"
\* (the application now owns obj), "release" (it gives obj up), "use", "draw",
\* "gl" (OpenGL state) or "insert" (into tracked_obj_set_).  args are the SDK
\* objects passed to the call, ret the value it reports, val its numbers.
Call(call, eff, obj, args, ret, val) ==
    [call |-> call, eff |-> eff, obj |-> obj, args |-> args, ret |-> ret, val |-> val]

\* The elements of the set S of numbers in ascending order.
RECURSIVE Ascending(_)
Ascending(S) ==
    IF S = {} THEN << >>
    ELSE LET m == CHOOSE x \in S : \A y \in S : x <= y
         IN  << m >> \o Ascending(S \ {m})

\* The long-lived objects the application holds after the call e.
SettleCall(h, e) ==
    IF e.obj.kind \notin LongLived THEN h
    ELSE IF e.eff = "create" THEN h \cup {e.obj}
    ELSE IF e.eff = "release" THEN h \ {e.obj}
    ELSE h

\* The long-lived objects held after the calls log[i], log[i+1], ...
RECURSIVE SettleFrom(_, _, _)
SettleFrom(h, log, i) ==
    IF i > Len(log) THEN h ELSE SettleFrom(SettleCall(h, log[i]), log, i + 1)

\* The long-lived objects held after the calls log.
Settle(h, log) == SettleFrom(h, log, 1)

VARIABLES
    ar_session_,        \* ArSession* ar_session_
    ar_frame_,          \* ArFrame* ar_frame_
    tracked_obj_set_,   \* set of anchor ids
    plane_color_map_,   \* plane reference -> colour
    plane_count_,       \* int32_t plane_count_
    held,               \* the long-lived SDK objects acquired or created and not yet released or destroyed
    pc,                 \* "idle" between handlers, the handler's name after its opening calls, "done" once destroyed
    op,                 \* the handler called last
    calls               \* the calls that handler has made, in order

vars == << ar_session_, ar_frame_, tracked_obj_set_, plane_color_map_, plane_count_, held, pc, op, calls >>

\* --------------------------------------------------------------- constructor
ConstructorCalls ==
    << Call("ArSession_create", "create", Session, {}, AR_SUCCESS, <<>>),
       Call("ArConfig_create", "create", Config, {Session}, "", <<>>),
       Call("ArSession_checkSupported", "use", Config, {Session, Config}, AR_SUCCESS, <<>>),
       Call("ArSession_configure", "use", Config, {Session, Config}, AR_SUCCESS, <<>>),
       Call("ArConfig_destroy", "release", Config, {Config}, "", <<>>),
       Call("ArFrame_create", "create", Frame, {Session}, "", <<>>) >>

Init ==
    /\ ar_session_ = Session
    /\ ar_frame_ = Frame
    /\ tracked_obj_set_ = {}
    /\ plane_color_map_ = << >>
    /\ plane_count_ = 0
    /\ held = Settle({}, ConstructorCalls)
    /\ pc = "idle"
    /\ op = "HelloArApplication"
    /\ calls = ConstructorCalls

\* --------------------------------------------------------------- OnDrawFrame
GlSetupCalls ==
    << Call("glClearColor", "gl", NullHandle, {}, "", <<>>),
       Call("glClear", "gl", NullHandle, {}, "", <<>>),
       Call("glEnable", "gl", NullHandle, {}, "GL_CULL_FACE", <<>>),
       Call("glEnable", "gl", NullHandle, {}, "GL_DEPTH_TEST", <<>>),
       Call("glEnable", "gl", NullHandle, {}, "GL_BLEND", <<>>),
       Call("glBlendFunc", "gl", NullHandle, {}, "", <<>>) >>

UpdateCalls(update_status) ==
    << Call("ArSession_update", "use", ar_frame_, {ar_session_, ar_frame_}, update_status, <<>>) >>
    \o (IF update_status # AR_SUCCESS
        THEN << Call("LOGE", "log", NullHandle, {}, "HelloArApplication::OnDrawFrame ArSession_update error", <<>>) >>
        ELSE << >>)

CameraCalls ==
    LET ar_camera == Handle("camera", 1)
    IN  << Call("ArFrame_acquireCamera", "create", ar_camera, {ar_session_, ar_frame_}, "", <<>>),
           Call("ArCamera_getViewMatrix", "use", ar_camera, {ar_session_, ar_camera}, "", <<>>),
           Call("ArCamera_getProjectionMatrix", "use", ar_camera, {ar_session_, ar_camera}, "", <<>>),
           Call("ArCamera_release", "release", ar_camera, {ar_camera}, "", <<>>) >>

BackgroundCalls ==
    << Call("background_renderer_.Draw", "draw", ar_frame_, {ar_session_, ar_frame_}, "", <<>>) >>

\* light_intensity after the light-estimate block.
LightIntensity(light) ==
    IF light.state = AR_LIGHT_ESTIMATE_STATE_VALID THEN light.intensity ELSE DefaultLightIntensity

LightCalls(light) ==
    LET ar_light_estimate == Handle("light_estimate", 1)
    IN  << Call("ArLightEstimate_create", "create", ar_light_estimate, {ar_session_}, "", <<>>),
           Call("ArFrame_getLightEstimate", "use", ar_light_estimate, {ar_session_, ar_frame_, ar_light_estimate}, "", <<>>),
           Call("ArLightEstimate_getState", "use", ar_light_estimate, {ar_session_, ar_light_estimate}, light.state, <<>>) >>
        \o (IF light.state = AR_LIGHT_ESTIMATE_STATE_VALID
            THEN << Call("ArLightEstimate_getPixelIntensity", "use", ar_light_estimate,
                         {ar_session_, ar_light_estimate}, "", <<light.intensity>>) >>
            ELSE << >>)
        \o << Call("ArLightEstimate_destroy", "release", ar_light_estimate, {ar_light_estimate}, "", <<>>) >>

\* The test that lets an anchor be drawn: tracking_state == AR_TRACKING_STATE_TRACKING.
AnchorRenderedUnlessStopped(tracking_state) == tracking_state # AR_TRACKING_STATE_STOPPED

AnchorRendered(tracking_state) == tracking_state = AR_TRACKING_STATE_TRACKING

\* The body of the loop over tracked_obj_set_ for one anchor.
AndyCalls(obj_iter, tracking_state, light_intensity) ==
    LET anchor == Handle("anchor", obj_iter)
    IN  << Call("ArAnchor_getTrackingState", "use", anchor, {ar_session_, anchor}, tracking_state, <<>>) >>
        \o (IF AnchorRendered(tracking_state)
            THEN << Call("util::GetTransformMatrixFromAnchor", "use", anchor, {ar_session_, anchor}, "", <<>>),
                    Call("andy_renderer_.Draw", "draw", anchor, {}, "", <<light_intensity>>) >>
            ELSE << >>)

\* The loop over tracked_obj_set_, visiting order[i], order[i+1], ...
RECURSIVE AndyLoop(_, _, _, _)
AndyLoop(order, i, tstate, light_intensity) ==
    IF i > Len(order) THEN << >>
    ELSE AndyCalls(order[i], tstate[order[i]], light_intensity)
         \o AndyLoop(order, i + 1, tstate, light_intensity)

\* The colour of ar_plane and the map after the find/insert of the plane loop.
PlaneColor(map, ar_plane, r) ==
    IF ar_plane \in DOMAIN map THEN map[ar_plane] ELSE GetRandomPlaneColor(r)

\* PlaneMapInsert that stores a colour whether or not the map has the plane.
PlaneMapInsertOverwrite(map, ar_plane, r) ==
    [p \in DOMAIN map \cup {ar_plane} |-> IF p = ar_plane THEN GetRandomPlaneColor(r) ELSE map[p]]

PlaneMapInsert(map, ar_plane, r) ==
    IF ar_plane \in DOMAIN map THEN map
    ELSE [p \in DOMAIN map \cup {ar_plane} |-> IF p = ar_plane THEN GetRandomPlaneColor(r) ELSE map[p]]

\* The body of the plane loop for item i of plane_list.
PlaneCalls(plane_list, planes, i, map, r) ==
    LET ar_trackable == Handle("trackable", planes[i])
    IN  << Call("ArTrackableList_acquireItem", "create", ar_trackable, {ar_session_, plane_list}, "", <<i - 1>>) >>
        \o (IF planes[i] \in DOMAIN map THEN << >>
            ELSE << Call("plane_color_map_.insert", "insert", ar_trackable, {}, "", PlaneColor(map, planes[i], r)) >>)
        \o << Call("plane_renderer_.Draw", "draw", ar_trackable, {ar_session_, ar_trackable}, "",
                    PlaneColor(map, planes[i], r)),
               Call("ArTrackable_release", "release", ar_trackable, {ar_trackable}, "", <<>>) >>

\* What std::rand() returns for plane p; it is not called for a plane the map has.
RandAt(rands, p) == IF p \in DOMAIN rands THEN rands[p] ELSE 0

\* The plane loop from item i on: the calls and the map it leaves.
RECURSIVE PlaneLoop(_, _, _, _, _)
PlaneLoop(plane_list, planes, i, map, rands) ==
    IF i > Len(planes) THEN [calls |-> << >>, map |-> map]
    ELSE LET rest == PlaneLoop(plane_list, planes, i + 1, PlaneMapInsert(map, planes[i], RandAt(rands, planes[i])), rands)
         IN  [calls |-> PlaneCalls(plane_list, planes, i, map, RandAt(rands, planes[i])) \o rest.calls,
              map |-> rest.map]

PlaneListCalls(plane_list, planes) ==
    << Call("ArTrackableList_create", "create", plane_list, {ar_session_}, "", <<>>),
       Call("ArSession_getAllTrackables", "use", plane_list, {ar_session_, plane_list}, AR_TRACKABLE_PLANE, <<>>),
       Call("ArTrackableList_getSize", "use", plane_list, {ar_session_, plane_list}, "", <<Len(planes)>>) >>

PlaneListDestroyCalls(plane_list) ==
    << Call("ArTrackableList_destroy", "release", plane_list, {plane_list}, "", <<>>) >>

\* PointCloudCalls without the ArPointCloud_release.
PointCloudCallsNoRelease(point_cloud_status) ==
    LET ar_point_cloud == Handle("point_cloud", 1)
    IN  IF point_cloud_status = AR_SUCCESS
        THEN << Call("ArFrame_acquirePointCloud", "create", ar_point_cloud, {ar_session_, ar_frame_}, point_cloud_status, <<>>),
                Call("point_cloud_renderer_.Draw", "draw", ar_point_cloud, {ar_session_, ar_point_cloud}, "", <<>>) >>
        ELSE << Call("ArFrame_acquirePointCloud", "use", NullHandle, {ar_session_, ar_frame_}, point_cloud_status, <<>>) >>

PointCloudCalls(point_cloud_status) ==
    LET ar_point_cloud == Handle("point_cloud", 1)
    IN  IF point_cloud_status = AR_SUCCESS
        THEN << Call("ArFrame_acquirePointCloud", "create", ar_point_cloud, {ar_session_, ar_frame_}, point_cloud_status, <<>>),
                Call("point_cloud_renderer_.Draw", "draw", ar_point_cloud, {ar_session_, ar_point_cloud}, "", <<>>),
                Call("ArPointCloud_release", "release", ar_point_cloud, {ar_point_cloud}, "", <<>>) >>
        ELSE << Call("ArFrame_acquirePointCloud", "use", NullHandle, {ar_session_, ar_frame_}, point_cloud_status, <<>>) >>

\* DrawFrame with the background drawn before the camera is acquired and released.
DrawFrameBackgroundFirst(update_status, light, order, tstate, planes, rands, point_cloud_status) ==
    LET plane_list == Handle("trackable_list", 1)
        loop == PlaneLoop(plane_list, planes, 1, plane_color_map_, rands)
    IN  [calls |-> UpdateCalls(update_status)
                   \o BackgroundCalls
                   \o CameraCalls
                   \o LightCalls(light)
                   \o AndyLoop(order, 1, tstate, LightIntensity(light))
                   \o PlaneListCalls(plane_list, planes)
                   \o loop.calls
                   \o PlaneListDestroyCalls(plane_list)
                   \o PointCloudCalls(point_cloud_status),
         map |-> loop.map]

\* DrawFrame that returns after a failed ArSession_update.
DrawFrameStopOnFailedUpdate(update_status, light, order, tstate, planes, rands, point_cloud_status) ==
    LET plane_list == Handle("trackable_list", 1)
        loop == PlaneLoop(plane_list, planes, 1, plane_color_map_, rands)
    IN  IF update_status # AR_SUCCESS
        THEN [calls |-> UpdateCalls(update_status), map |-> plane_color_map_]
        ELSE [calls |-> UpdateCalls(update_status)
                        \o CameraCalls
                        \o BackgroundCalls
                        \o LightCalls(light)
                        \o AndyLoop(order, 1, tstate, LightIntensity(light))
                        \o PlaneListCalls(plane_list, planes)
                        \o loop.calls
                        \o PlaneListDestroyCalls(plane_list)
                        \o PointCloudCalls(point_cloud_status),
              map |-> loop.map]

\* OnDrawFrame from ArSession_update on: its calls and the plane colour map it leaves.
DrawFrame(update_status, light, order, tstate, planes, rands, point_cloud_status) ==
    LET plane_list == Handle("trackable_list", 1)
        loop == PlaneLoop(plane_list, planes, 1, plane_color_map_, rands)
    IN  [calls |-> UpdateCalls(update_status)
                   \o CameraCalls
                   \o BackgroundCalls
                   \o LightCalls(light)
                   \o AndyLoop(order, 1, tstate, LightIntensity(light))
                   \o PlaneListCalls(plane_list, planes)
                   \o loop.calls
                   \o PlaneListDestroyCalls(plane_list)
                   \o PointCloudCalls(point_cloud_status),
         map |-> loop.map]

\* The lists ArSession_getAllTrackables can fill in: the planes the session
\* has, each once, taken to come in one standing order.
PlaneLists == { Ascending(S) : S \in SUBSET PlaneRefs }

\* The planes of the list that plane_color_map_ has no colour for.
NewPlanes(planes) == { planes[i] : i \in 1..Len(planes) } \ DOMAIN plane_color_map_

\* OnDrawFrame is called: the OpenGL set-up.
OnDrawFrameSetup ==
    /\ pc = "idle"
    /\ pc' = "OnDrawFrame"
    /\ op' = "OnDrawFrame"
    /\ calls' = GlSetupCalls
    /\ UNCHANGED << ar_session_, ar_frame_, tracked_obj_set_, plane_color_map_, plane_count_, held >>

\* The rest of OnDrawFrame, to its return.  rands[p] is what std::rand() returns
\* when the colour of plane p is drawn.  The range-for visits the anchors in
\* the order the container keeps them in, taken to be ascending.
OnDrawFrame ==
    /\ pc = "OnDrawFrame"
    /\ \E update_status \in ArStatuses, light \in LightAnswers,
          tstate \in [tracked_obj_set_ -> TrackingStates],
          planes \in PlaneLists, point_cloud_status \in ArStatuses :
          \E rands \in [NewPlanes(planes) -> RandValues] :
          \E r \in { DrawFrame(update_status, light, Ascending(tracked_obj_set_), tstate, planes, rands, point_cloud_status) } :
              /\ calls' = calls \o r.calls
              /\ plane_color_map_' = r.map
              /\ plane_count_' = Len(planes)
              /\ held' = Settle(held, r.calls)
    /\ pc' = "idle"
    /\ UNCHANGED << ar_session_, ar_frame_, tracked_obj_set_, op >>

\* ----------------------------------------------------------------- OnTouched
AR_TRACKABLE_POINT == "AR_TRACKABLE_POINT"

\* What the SDK answers for one hit result: whether ArHitResult_create yields an
\* object, the type of the hit trackable, in_polygon, the status of
\* ArHitResult_acquireNewAnchor and the new anchor's tracking state.  An answer
\* the code never asks for is fixed, so that each path is chosen once.
HitAnswers ==
    { h \in [created : BOOLEAN, type : { AR_TRACKABLE_PLANE, AR_TRACKABLE_POINT }, in_polygon : { 0, 1 },
             status : ArStatuses, tracking_state : TrackingStates] :
        /\ (~h.created => h.type = AR_TRACKABLE_POINT)
        /\ (h.type # AR_TRACKABLE_PLANE => h.in_polygon = 0)
        /\ (h.in_polygon = 0 => h.status # AR_SUCCESS)
        /\ (h.status # AR_SUCCESS => h.tracking_state = AR_TRACKING_STATE_STOPPED) }

\* The hit lists ArFrame_hitTest can fill in.
HitLists == UNION { [1..n -> HitAnswers] : n \in 0..MaxHits }

\* The pointer ArHitResult_acquireNewAnchor hands out: one no live anchor has.
NewAnchor(live) == CHOOSE a \in 1..(Cardinality(live) + 1) : a \notin live /\ \A b \in 1..(a - 1) : b \in live

HitCreateCalls(hit_result_list, ar_hit_result, i) ==
    << Call("ArHitResult_create", IF ar_hit_result = NullHandle THEN "use" ELSE "create", ar_hit_result, {ar_session_}, "", <<>>),
       Call("ArHitResultList_getItem", "use", ar_hit_result, {ar_session_, hit_result_list, ar_hit_result}, "", <<i - 1>>) >>

HitTrackableCalls(ar_hit_result, ar_trackable, type) ==
    << Call("ArHitResult_acquireTrackable", "create", ar_trackable, {ar_session_, ar_hit_result}, "", <<>>),
       Call("ArTrackable_getType", "use", ar_trackable, {ar_session_, ar_trackable}, type, <<>>) >>

\* HitNotPlaneCalls without the ArTrackable_release.
HitNotPlaneCallsNoRelease(ar_trackable) == << >>

HitNotPlaneCalls(ar_trackable) ==
    << Call("ArTrackable_release", "release", ar_trackable, {ar_trackable}, "", <<>>) >>

HitPoseCalls(ar_hit_result, ar_trackable, ar_pose, in_polygon) ==
    << Call("ArPose_create", "create", ar_pose, {ar_session_}, "", <<>>),
       Call("ArHitResult_getHitPose", "use", ar_pose, {ar_session_, ar_hit_result, ar_pose}, "", <<>>),
       Call("ArPlane_isPoseInPolygon", "use", ar_trackable, {ar_session_, ar_trackable, ar_pose}, "", <<in_polygon>>),
       Call("ArTrackable_release", "release", ar_trackable, {ar_trackable}, "", <<>>),
       Call("ArPose_destroy", "release", ar_pose, {ar_pose}, "", <<>>) >>

HitAnchorFailedCalls(ar_hit_result, status) ==
    << Call("ArHitResult_acquireNewAnchor", "use", NullHandle, {ar_session_, ar_hit_result}, status, <<>>) >>

HitAnchorCalls(ar_hit_result, anchor, tracking_state) ==
    << Call("ArHitResult_acquireNewAnchor", "create", anchor, {ar_session_, ar_hit_result}, AR_SUCCESS, <<>>),
       Call("ArAnchor_getTrackingState", "use", anchor, {ar_session_, anchor}, tracking_state, <<>>) >>

HitNotTrackingCalls(anchor) ==
    << Call("ArAnchor_release", "release", anchor, {anchor}, "", <<>>) >>

HitStoreCalls(ar_hit_result, anchor) ==
    << Call("tracked_obj_set_.insert", "insert", anchor, {}, "", <<>>),
       Call("ArHitResult_destroy", "release", ar_hit_result, {ar_hit_result}, "", <<>>) >>

\* The test that sends a new anchor back: tracking_state != AR_TRACKING_STATE_TRACKING.
AnchorRejectedUnlessStopped(tracking_state) == tracking_state = AR_TRACKING_STATE_STOPPED

AnchorRejected(tracking_state) == tracking_state # AR_TRACKING_STATE_TRACKING

\* One pass of the loop over the hit results, for item i with the SDK's answers
\* h: the calls, the set it leaves and how the pass ends ("next": the loop goes
\* on, by continue or by reaching the end of the body; "return").
HitBody(hit_result_list, h, i, set) ==
    LET ar_hit_result == IF h.created THEN Handle("hit_result", i) ELSE NullHandle
        ar_trackable == Handle("trackable", i)
        ar_pose == Handle("pose", i)
        anchor == Handle("anchor", NewAnchor(set))
        create == HitCreateCalls(hit_result_list, ar_hit_result, i)
        trackable == create \o HitTrackableCalls(ar_hit_result, ar_trackable, h.type)
        pose == trackable \o HitPoseCalls(ar_hit_result, ar_trackable, ar_pose, h.in_polygon)
        acquired == pose \o HitAnchorCalls(ar_hit_result, anchor, h.tracking_state)
    IN  IF ar_hit_result = NullHandle
        THEN [calls |-> create, set |-> set, end |-> "return"]
        ELSE IF h.type # AR_TRACKABLE_PLANE
        THEN [calls |-> trackable \o HitNotPlaneCalls(ar_trackable), set |-> set, end |-> "next"]
        ELSE IF h.in_polygon = 0
        THEN [calls |-> pose, set |-> set, end |-> "next"]
        ELSE IF h.status # AR_SUCCESS
        THEN [calls |-> pose \o HitAnchorFailedCalls(ar_hit_result, h.status), set |-> set, end |-> "return"]
        ELSE IF AnchorRejected(h.tracking_state)
        THEN [calls |-> acquired \o HitNotTrackingCalls(anchor), set |-> set, end |-> "next"]
        ELSE [calls |-> acquired \o HitStoreCalls(ar_hit_result, anchor),
              set |-> set \cup {anchor.id}, end |-> "next"]

\* The loop over the hit results from item i on.
RECURSIVE HitLoop(_, _, _, _)
HitLoop(hit_result_list, hits, i, set) ==
    IF i > Len(hits) THEN [calls |-> << >>, set |-> set, end |-> "next"]
    ELSE LET body == HitBody(hit_result_list, hits[i], i, set)
         IN  IF body.end = "return" THEN body
             ELSE LET rest == HitLoop(hit_result_list, hits, i + 1, body.set)
                  IN  [calls |-> body.calls \o rest.calls, set |-> rest.set, end |-> rest.end]

HitListCalls(hit_result_list) ==
    << Call("ArHitResultList_create", "create", hit_result_list, {ar_session_}, "", <<>>) >>

HitTestCalls(hit_result_list, hits) ==
    << Call("ArFrame_hitTest", "use", hit_result_list, {ar_session_, ar_frame_, hit_result_list}, "", <<>>),
       Call("ArHitResultList_getSize", "use", hit_result_list, {ar_session_, hit_result_list}, "", <<Len(hits)>>) >>

HitListDestroyCalls(hit_result_list) ==
    << Call("ArHitResultList_destroy", "release", hit_result_list, {hit_result_list}, "", <<>>) >>

\* OnTouched from ArFrame_hitTest on, for a hit test that yields hits: its calls
\* and the tracked_obj_set_ it leaves.  The touch position x, y only reaches the SDK.
Touched(hit_result_list, hits) ==
    LET loop == HitLoop(hit_result_list, hits, 1, tracked_obj_set_)
    IN  [calls |-> HitTestCalls(hit_result_list, hits)
                   \o loop.calls
                   \o (IF loop.end = "return" THEN << >> ELSE HitListDestroyCalls(hit_result_list)),
         set |-> loop.set]

\* OnTouched is called: the test of ar_frame_ and ar_session_, and ArHitResultList_create.
OnTouchedCreateList ==
    /\ pc = "idle"
    /\ op' = "OnTouched"
    /\ IF ar_frame_ # NullHandle /\ ar_session_ # NullHandle
       THEN /\ pc' = "OnTouched"
            /\ calls' = HitListCalls(Handle("hit_result_list", 1))
       ELSE /\ pc' = "idle"
            /\ calls' = << >>
    /\ UNCHANGED << ar_session_, ar_frame_, tracked_obj_set_, plane_color_map_, plane_count_, held >>

\* The rest of OnTouched, to its return.
OnTouched ==
    /\ pc = "OnTouched"
    /\ \E hits \in HitLists :
          \E r \in { Touched(Handle("hit_result_list", 1), hits) } :
              /\ Cardinality(r.set) <= MaxAnchors
              /\ calls' = calls \o r.calls
              /\ tracked_obj_set_' = r.set
              /\ held' = Settle(held, r.calls)
    /\ pc' = "idle"
    /\ UNCHANGED << ar_session_, ar_frame_, plane_color_map_, plane_count_, op >>

\* ------------------------------------------------------- ~HelloArApplication
DestructorCalls ==
    << Call("ArSession_destroy", "release", ar_session_, {ar_session_}, "", <<>>),
       Call("ArFrame_destroy", "release", ar_frame_, {ar_frame_}, "", <<>>) >>

\* The destructor body, then the members' own destructors: the containers go,
\* the pointers they held are dropped.
Destructor ==
    /\ pc = "idle"
    /\ pc' = "done"
    /\ op' = "~HelloArApplication"
    /\ calls' = DestructorCalls
    /\ held' = Settle(held, DestructorCalls)
    /\ tracked_obj_set_' = {}
    /\ plane_color_map_' = << >>
    /\ UNCHANGED << ar_session_, ar_frame_, plane_count_ >>

Next == OnDrawFrameSetup \/ OnDrawFrame \/ OnTouchedCreateList \/ OnTouched \/ Destructor

Spec == Init /\ [][Next]_vars

\* ================================================================== claims
\* The handler h has been called and has returned.
Returned(h) == op = h /\ pc \in { "idle", "done" }

\* The positions of log at which call is made.
At(log, call) == { k \in 1..Len(log) : log[k].call = call }

\* The positions of log with effect eff on an object of one of kinds.
Eff(log, eff, kinds) == { k \in 1..Len(log) : log[k].eff = eff /\ log[k].obj.kind \in kinds }

\* The positions of log that release or destroy the object obj.
Releases(log, obj) == { j \in 1..Len(log) : log[j].eff = "release" /\ log[j].obj = obj }

\* The object created at position k of log is created once, and released or
\* destroyed exactly once, later.
ReleasedOnce(log, k) ==
    /\ \A j \in 1..Len(log) : (log[j].eff = "create" /\ log[j].obj = log[k].obj) => j = k
    /\ Cardinality(Releases(log, log[k].obj)) = 1
    /\ \A j \in Releases(log, log[k].obj) : j > k

\* Positions k <= j of log lie in the same pass of the hit loop: no pass
\* begins (with ArHitResult_create) after k and up to j.
SamePass(log, k, j) == k <= j /\ \A t \in (k + 1)..j : log[t].call # "ArHitResult_create"

\* -------------------------------------------------------------------- C1
\* C1: when OnDrawFrame has returned, whatever the SDK answered, every object
\* the call acquired or created (camera, light estimate, trackable list, each
\* plane trackable, the point cloud if acquired) has been released or
\* destroyed exactly once, and the call released nothing else: no
\* frame-scoped object is outstanding.
C1_FrameObjectsReleased ==
    Returned("OnDrawFrame") =>
        /\ \A k \in 1..Len(calls) : calls[k].eff = "create" => ReleasedOnce(calls, k)
        /\ \A j \in 1..Len(calls) : calls[j].eff = "release" =>
              \E k \in 1..(j - 1) : calls[k].eff = "create" /\ calls[k].obj = calls[j].obj
        /\ held = { ar_session_, ar_frame_ } \cup { Handle("anchor", a) : a \in tracked_obj_set_ }

\* A frame with a failed update, a valid light estimate, every plane and a point cloud.
C1_Witness ==
    /\ Returned("OnDrawFrame")
    /\ \E k \in At(calls, "ArSession_update") : calls[k].ret # AR_SUCCESS
    /\ At(calls, "ArLightEstimate_getPixelIntensity") # {}
    /\ Cardinality(Eff(calls, "create", {"trackable"})) = MaxPlanes
    /\ Eff(calls, "create", {"point_cloud"}) # {}
    /\ Cardinality(Eff(calls, "release", {"camera", "light_estimate", "trackable_list", "trackable", "point_cloud"}))
         = MaxPlanes + 4

\* -------------------------------------------------------------------- C2
\* C2: when OnTouched has returned, by whichever of the paths hit not a
\* plane, pose outside the polygon, ArHitResult_acquireNewAnchor failed,
\* anchor not tracking, anchor stored, each ArHitResult created in the loop
\* and the ArHitResultList created at the start have been destroyed exactly once.
C2_HitResultsDestroyed ==
    (Returned("OnTouched") /\ \A k \in At(calls, "ArHitResult_create") : calls[k].obj # NullHandle) =>
        \A k \in Eff(calls, "create", {"hit_result", "hit_result_list"}) : ReleasedOnce(calls, k)

\* -------------------------------------------------------------------- C3
\* C3: every anchor acquired is released exactly once, in OnTouched when it
\* is not stored and otherwise by the time the application has been
\* destroyed: once the destructor has run the application holds no anchor.
C3_AnchorsReleased ==
    /\ Returned("OnTouched") =>
          \A k \in Eff(calls, "create", {"anchor"}) :
              Cardinality({ j \in (k + 1)..Len(calls) :
                              /\ calls[j].eff \in { "release", "insert" } /\ calls[j].obj = calls[k].obj
                              /\ SamePass(calls, k, j) }) = 1
    /\ pc = "done" => \A h \in held : h.kind # "anchor"

\* -------------------------------------------------------------------- C4
\* The positions of calls at which something is drawn for an object of kind.
Draws(log, kind) == Eff(log, "draw", {kind})

\* C4: in every OnDrawFrame, ArSession_update is called exactly once, before
\* every query of the frame and every draw; the draws come in the order
\* camera background, Andy objects, planes, point cloud; and the camera is
\* released before the background is drawn.
C4_FrameOrder ==
    Returned("OnDrawFrame") =>
        /\ Cardinality(At(calls, "ArSession_update")) = 1
        /\ \A u \in At(calls, "ArSession_update") :
              \A k \in 1..Len(calls) : (calls[k].eff # "gl" /\ k # u) => u < k
        /\ Cardinality(Draws(calls, "frame")) = 1
        /\ \A b \in Draws(calls, "frame") :
              /\ \A k \in Draws(calls, "anchor") \cup Draws(calls, "trackable") \cup Draws(calls, "point_cloud") : b < k
              /\ \A k \in At(calls, "ArCamera_release") : k < b
              /\ At(calls, "ArCamera_release") # {}
        /\ \A a \in Draws(calls, "anchor") :
              \A k \in Draws(calls, "trackable") \cup Draws(calls, "point_cloud") : a < k
        /\ \A t \in Draws(calls, "trackable") : \A k \in Draws(calls, "point_cloud") : t < k

\* A frame that draws the background, an Andy object, a plane and the point cloud.
C4_Witness ==
    /\ Returned("OnDrawFrame")
    /\ Draws(calls, "frame") # {}
    /\ Draws(calls, "anchor") # {}
    /\ Draws(calls, "trackable") # {}
    /\ Draws(calls, "point_cloud") # {}

\* -------------------------------------------------------------------- C5
\* C5: in OnTouched every trackable acquired from a hit result is released
\* exactly once, in the pass of the loop that acquired it, plane or not, and
\* is passed to no call after its release; every ArPose created is destroyed
\* exactly once.
C5_TrackablesAndPoses ==
    Returned("OnTouched") =>
        /\ \A k \in Eff(calls, "create", {"trackable"}) :
              /\ ReleasedOnce(calls, k)
              /\ \A j \in Releases(calls, calls[k].obj) :
                    /\ SamePass(calls, k, j)
                    /\ \A m \in (j + 1)..Len(calls) : calls[k].obj \notin calls[m].args
        /\ \A k \in Eff(calls, "create", {"pose"}) : ReleasedOnce(calls, k)

\* A touch whose hits are a non-plane trackable and a plane, both released.
C5_Witness ==
    /\ Returned("OnTouched")
    /\ \E k \in At(calls, "ArTrackable_getType") : calls[k].ret # AR_TRACKABLE_PLANE
    /\ \E k \in At(calls, "ArTrackable_getType") : calls[k].ret = AR_TRACKABLE_PLANE
    /\ Cardinality(Eff(calls, "release", {"trackable"})) = 2
    /\ Eff(calls, "release", {"pose"}) # {}

\* -------------------------------------------------------------------- C6
\* The insert at position k of log follows, in its pass of the hit loop, a hit
\* trackable of type plane, a hit pose inside the polygon, a successful
\* ArHitResult_acquireNewAnchor of the inserted anchor and a tracking state
\* TRACKING reported for it.
QualifiedInsert(log, k) ==
    /\ \E j \in 1..(k - 1) : /\ log[j].call = "ArTrackable_getType" /\ log[j].ret = AR_TRACKABLE_PLANE
                             /\ SamePass(log, j, k)
    /\ \E j \in 1..(k - 1) : /\ log[j].call = "ArPlane_isPoseInPolygon" /\ log[j].val = << 1 >>
                             /\ SamePass(log, j, k)
    /\ \E j \in 1..(k - 1) : /\ log[j].call = "ArHitResult_acquireNewAnchor"
                             /\ log[j].ret = AR_SUCCESS /\ log[j].obj = log[k].obj
                             /\ SamePass(log, j, k)
    /\ \E j \in 1..(k - 1) : /\ log[j].call = "ArAnchor_getTrackingState"
                             /\ log[j].ret = AR_TRACKING_STATE_TRACKING /\ log[j].obj = log[k].obj
                             /\ SamePass(log, j, k)

\* The anchor reported not tracking at position k of log is released by the
\* next call and is not inserted in that pass.
RejectedAnchor(log, k) ==
    /\ k < Len(log)
    /\ log[k + 1].call = "ArAnchor_release"
    /\ log[k + 1].obj = log[k].obj
    /\ \A j \in (k + 1)..Len(log) : ~(log[j].eff = "insert" /\ log[j].obj = log[k].obj /\ SamePass(log, k, j))

\* C6: tracked_obj_set_ gains an anchor only in OnTouched and only by an
\* insert whose hit result met all four conditions (plane, pose in polygon,
\* anchor acquired with AR_SUCCESS, anchor TRACKING); an anchor acquired but
\* not tracking is released and not inserted.
C6_InsertOnlyQualified ==
    [][ /\ pc # "OnTouched" => tracked_obj_set_' \subseteq tracked_obj_set_
        /\ pc = "OnTouched" =>
              /\ \A k \in At(calls', "tracked_obj_set_.insert") : QualifiedInsert(calls', k)
              /\ tracked_obj_set_' = tracked_obj_set_
                    \cup { calls'[k].obj.id : k \in At(calls', "tracked_obj_set_.insert") }
              /\ \A k \in At(calls', "ArAnchor_getTrackingState") :
                    calls'[k].ret # AR_TRACKING_STATE_TRACKING => RejectedAnchor(calls', k) ]_vars

\* A touch that stored one anchor and sent back another that was not tracking.
C6_Witness ==
    /\ Returned("OnTouched")
    /\ At(calls, "tracked_obj_set_.insert") # {}
    /\ At(calls, "ArAnchor_release") # {}
    /\ Cardinality(tracked_obj_set_) = 1

\* -------------------------------------------------------------------- C7
\* C7: OnDrawFrame asks each anchor of tracked_obj_set_ for its tracking state
\* once and draws an Andy object for it if and only if the state is TRACKING;
\* it draws no other Andy object and leaves tracked_obj_set_ as it was, so a
\* skipped anchor is drawn in a later frame in which it is tracking.
C7_DrawnIffTracking ==
    [][ pc = "OnDrawFrame" =>
          /\ tracked_obj_set_' = tracked_obj_set_
          /\ \A a \in tracked_obj_set_ :
                /\ Cardinality({ k \in At(calls', "ArAnchor_getTrackingState") : calls'[k].obj = Handle("anchor", a) }) = 1
                /\ \A k \in At(calls', "ArAnchor_getTrackingState") :
                      calls'[k].obj = Handle("anchor", a) =>
                          (calls'[k].ret = AR_TRACKING_STATE_TRACKING
                             <=> Cardinality({ d \in Draws(calls', "anchor") : calls'[d].obj = Handle("anchor", a) }) = 1)
          /\ \A d \in Draws(calls', "anchor") : calls'[d].obj.id \in tracked_obj_set_ ]_vars

\* A frame that drew one anchor and skipped another, which stayed in the set.
C7_Witness ==
    /\ Returned("OnDrawFrame")
    /\ Cardinality(tracked_obj_set_) = 2
    /\ Cardinality(Draws(calls, "anchor")) = 1
    /\ \E k \in At(calls, "ArAnchor_getTrackingState") : calls[k].ret = "AR_TRACKING_STATE_PAUSED"

\* -------------------------------------------------------------------- C8
\* C8: one OnTouched call places at most one anchor: tracked_obj_set_ grows
\* by at most one element per call, however many hit results there are.
C8_AtMostOneAnchor ==
    [][ Cardinality(tracked_obj_set_') <= Cardinality(tracked_obj_set_) + 1 ]_vars

\* -------------------------------------------------------------------- C9
\* C9: when OnDrawFrame has returned, plane_color_map_ holds no reference to
\* a plane trackable the call released with ArTrackable_release.
C9_NoReleasedPlaneKept ==
    Returned("OnDrawFrame") =>
        \A k \in At(calls, "ArTrackable_release") : calls[k].obj.id \notin DOMAIN plane_color_map_

\* ------------------------------------------------------------------- C10
\* C10: on destruction the frame and the stored anchors are destroyed or
\* released before the session: after ArSession_destroy no object of the
\* session is passed to a call, and none is left held.
C10_SessionDestroyedLast ==
    pc = "done" =>
        /\ \A k \in At(calls, "ArSession_destroy") : \A j \in (k + 1)..Len(calls) : calls[j].args = {}
        /\ held = {}

\* ------------------------------------------------------------------- C11
\* The planes of the trackable list of the frame whose calls are log.
ListPlanes(log) == { log[k].obj.id : k \in At(log, "ArTrackableList_acquireItem") }

\* The positions of log at which plane p is drawn.
PlaneDraws(log, p) == { d \in At(log, "plane_renderer_.Draw") : log[d].obj.id = p }

\* The positions of log at which a colour is stored for plane p.
PlaneInserts(log, p) == { k \in At(log, "plane_color_map_.insert") : log[k].obj.id = p }

\* C11: while the application lives no entry of plane_color_map_ is
\* overwritten or removed; OnDrawFrame stores a colour exactly for the planes
\* of the list the map does not have yet, draws each plane of the list
\* exactly once, and draws it with the colour the map holds for it, which
\* for a plane the map already had is the colour assigned in the earlier frame.
C11_PlaneColoursStable ==
    [][ /\ pc' # "done" =>
              \A p \in DOMAIN plane_color_map_ :
                  p \in DOMAIN plane_color_map_' /\ plane_color_map_'[p] = plane_color_map_[p]
        /\ pc # "OnDrawFrame" /\ pc' # "done" => plane_color_map_' = plane_color_map_
        /\ pc = "OnDrawFrame" =>
              /\ DOMAIN plane_color_map_' = DOMAIN plane_color_map_ \cup ListPlanes(calls')
              /\ Cardinality(At(calls', "ArTrackableList_acquireItem")) = Cardinality(ListPlanes(calls'))
              /\ \A d \in At(calls', "plane_renderer_.Draw") : calls'[d].obj.id \in ListPlanes(calls')
              /\ \A p \in ListPlanes(calls') :
                    /\ Cardinality(PlaneDraws(calls', p)) = 1
                    /\ \A d \in PlaneDraws(calls', p) : calls'[d].val = plane_color_map_'[p]
                    /\ Cardinality(PlaneInserts(calls', p)) = (IF p \in DOMAIN plane_color_map_ THEN 0 ELSE 1) ]_vars

\* A frame that drew one plane with the colour an earlier frame gave it, not
\* the first of the table, and stored a colour for another plane.
C11_Witness ==
    /\ Returned("OnDrawFrame")
    /\ \E p \in ListPlanes(calls) :
          /\ PlaneInserts(calls, p) = {}
          /\ \E d \in PlaneDraws(calls, p) : calls[d].val = plane_color_map_[p] /\ calls[d].val # GetRandomPlaneColor(0)
    /\ \E p \in ListPlanes(calls) : PlaneInserts(calls, p) # {}

\* ------------------------------------------------------------------- C12
\* The calls of log made on the frame: those that are passed ar_frame_.
OnFrame(log, call) == { k \in At(log, call) : ar_frame_ \in log[k].args }

\* C12: when ArSession_update reports a status other than AR_SUCCESS,
\* OnDrawFrame logs the error, next acquires the camera and goes through
\* every later step on ar_frame_: the camera matrices, the background draw,
\* the light estimate, the tracking state of every stored anchor, the
\* trackable list with a draw for each of its planes, and the point cloud;
\* tracked_obj_set_ is left as it was.
C12_FailedUpdateGoesOn ==
    [][ (pc = "OnDrawFrame" /\ \E u \in At(calls', "ArSession_update") : calls'[u].ret # AR_SUCCESS) =>
          /\ tracked_obj_set_' = tracked_obj_set_
          /\ pc' = "idle"
          /\ \A u \in At(calls', "ArSession_update") :
                /\ u + 2 <= Len(calls')
                /\ calls'[u + 1].call = "LOGE"
                /\ calls'[u + 2].call = "ArFrame_acquireCamera"
                /\ At(calls', "LOGE") = { u + 1 }
          /\ OnFrame(calls', "ArFrame_acquireCamera") # {}
          /\ At(calls', "ArCamera_getViewMatrix") # {}
          /\ At(calls', "ArCamera_getProjectionMatrix") # {}
          /\ OnFrame(calls', "background_renderer_.Draw") # {}
          /\ OnFrame(calls', "ArFrame_getLightEstimate") # {}
          /\ At(calls', "ArLightEstimate_getState") # {}
          /\ { calls'[k].obj.id : k \in At(calls', "ArAnchor_getTrackingState") } = tracked_obj_set_
          /\ \A k \in At(calls', "ArAnchor_getTrackingState") :
                calls'[k].ret = AR_TRACKING_STATE_TRACKING =>
                    \E d \in Draws(calls', "anchor") : calls'[d].obj = calls'[k].obj
          /\ At(calls', "ArSession_getAllTrackables") # {}
          /\ \A k \in At(calls', "ArTrackableList_getSize") :
                calls'[k].val = << Cardinality(At(calls', "plane_renderer_.Draw")) >>
          /\ At(calls', "ArTrackableList_getSize") # {}
          /\ OnFrame(calls', "ArFrame_acquirePointCloud") # {}
          /\ \A k \in At(calls', "ArFrame_acquirePointCloud") :
                calls'[k].ret = AR_SUCCESS => At(calls', "point_cloud_renderer_.Draw") # {} ]_vars

\* A frame whose update failed and that still drew the background, an Andy
\* object, a plane and the point cloud.
C12_Witness ==
    /\ Returned("OnDrawFrame")
    /\ \E u \in At(calls, "ArSession_update") : calls[u].ret # AR_SUCCESS
    /\ At(calls, "LOGE") # {}
    /\ Draws(calls, "frame") # {}
    /\ Draws(calls, "anchor") # {}
    /\ Draws(calls, "trackable") # {}
    /\ Draws(calls, "point_cloud") # {}
    /\ tracked_obj_set_ # {}
====
